---- MODULE Spec2Model ----
(***************************************************************************)
(* Model of database.go of kis3: the page-view recorder (trackView) and    *)
(* the aggregation query engine (request, buildStatement, buildFilter).    *)
(*                                                                         *)
(* Representation of text.                                                 *)
(*   - A Go string is a sequence of fragments; the empty string is <<>>,   *)
(*     concatenation is \o and len(s) > 0 is Len(s) > 0.  A string         *)
(*     literal of the source is one fragment, a user supplied value is a   *)
(*     sequence of one-character fragments.                                *)
(*   - A date/time text "YYYY-MM-DD HH:MM:SS" is the sequence of its       *)
(*     zero padded numeric fields <<Y, M, D, H, MS>> (MS the minutes and   *)
(*     seconds); a shorter text such as "2019-01-07" is a prefix.  The     *)
(*     byte order of such texts is the lexicographic order of the fields.  *)
(***************************************************************************)
EXTENDS Integers, Sequences, FiniteSets, TLC

VARIABLES
    rows,        \* the views table: sequence of [url, ref, useragent, time]
    clock,       \* index into Instants: the storage engine's current time
    op,          \* the last call: "none", "trackView", "request", "build"
    call,        \* the arguments of the last trackView: <<url, ref, ua>>
    outcome,     \* how the last trackView ended
    req,         \* the ViewsRequest of the last request / build
    filterString,\* the filter text the last request / build produced
    statement,   \* the statement text the last request / build produced
    namedArgs,   \* the bound parameters the last request / build produced
    fault,       \* what the storage driver did during the last request
    resultRows,  \* the rows the last request returned
    e            \* TRUE iff the last request returned a non-nil error

vars == <<rows, clock, op, call, outcome, req, filterString, statement, namedArgs, fault,
          resultRows, e>>

----------------------------------------------------------------------------
(* Bounds of the model *)

MaxRows == 2

\* The offset, in hours, of the process's local time zone from UTC.
TzOffsetHours == 1

----------------------------------------------------------------------------
(* Generic helpers on texts *)

RECURSIVE Join(_, _)
\* strings.Join(parts, sep)
Join(parts, sep) ==
    IF Len(parts) = 0 THEN <<>>
    ELSE IF Len(parts) = 1 THEN parts[1]
    ELSE parts[1] \o sep \o Join(Tail(parts), sep)

\* The index of the first occurrence of fragment t in s, 0 when absent.
IndexOf(s, t) ==
    IF \E i \in 1..Len(s) : s[i] = t
    THEN CHOOSE i \in 1..Len(s) : s[i] = t /\ \A j \in 1..(i - 1) : s[j] # t
    ELSE 0

\* The byte value of the one-character fragments the model uses.
Ord(c) ==
    CASE c = " " -> 32
      [] c = "%" -> 37
      [] c = "'" -> 39
      [] c = "/" -> 47
      [] c = "1" -> 49
      [] c = "2" -> 50
      [] c = "A" -> 65
      [] c = "F" -> 70
      [] c = "_" -> 95
      [] c = "a" -> 97
      [] c = "b" -> 98
      [] c = "f" -> 102
      [] c = "g" -> 103
      [] c = "h" -> 104

RECURSIVE LessChars(_, _)
\* Byte-wise (BINARY collation) order of two character sequences.
LessChars(a, b) ==
    IF Len(b) = 0 THEN FALSE
    ELSE IF Len(a) = 0 THEN TRUE
    ELSE IF Ord(a[1]) # Ord(b[1]) THEN Ord(a[1]) < Ord(b[1])
    ELSE LessChars(Tail(a), Tail(b))

RECURSIVE LessFields(_, _)
\* Byte-wise order of two date/time texts, given as field sequences.
LessFields(a, b) ==
    IF Len(b) = 0 THEN FALSE
    ELSE IF Len(a) = 0 THEN TRUE
    ELSE IF a[1] # b[1] THEN a[1] < b[1]
    ELSE LessFields(Tail(a), Tail(b))

LeqFields(a, b) == a = b \/ LessFields(a, b)

----------------------------------------------------------------------------
(* Tracking: net/url and user_agent as trackView uses them *)

\* url.Parse(ref), for a raw referrer given as fragments: a leading ":" is
\* "missing protocol scheme" and "%zz" is an invalid escape: both make
\* Parse return (nil, err).  Otherwise the host is the authority that
\* follows "//" up to the next "/".
ParseUrl(ref) ==
    IF ref[1] = ":" \/ IndexOf(ref, "%zz") # 0
    THEN [nil |-> TRUE, Host |-> <<>>]
    ELSE LET rest == IF ref[1] = "https:" THEN Tail(ref) ELSE ref
         IN IF Len(rest) > 0 /\ rest[1] = "//"
            THEN LET auth == Tail(rest)
                     slash == IndexOf(auth, "/")
                 IN [nil |-> FALSE,
                     Host |-> IF slash = 0 THEN auth ELSE SubSeq(auth, 1, slash - 1)]
            ELSE [nil |-> FALSE, Host |-> <<>>]

\* (*URL).Hostname(): the host without its port.
Hostname(u) ==
    LET colon == IndexOf(u.Host, ":")
    IN IF colon = 0 THEN u.Host ELSE SubSeq(u.Host, 1, colon - 1)

\* user_agent.New(ua).Browser(): a raw user agent is a sequence of products
\* <<name, version>>; the browser is the last product.
Browser(ua) == ua[Len(ua)]

\* TrackOutcome without the check for the empty url.
TrackOutcome_NoEmptyCheck(urlString, ref, ua) ==
    IF ref # <<>> /\ ParseUrl(ref).nil THEN [kind |-> "panic"]
    ELSE [kind |-> "insert",
          url |-> urlString,
          ref |-> IF ref # <<>> THEN Hostname(ParseUrl(ref)) ELSE <<>>,
          ua  |-> IF ua # <<>>
                  THEN Browser(ua)[1] \o <<" ">> \o Browser(ua)[2]
                  ELSE <<>>]

\* The row trackView binds to the insert statement, or the way it ends
\* before the insert.
TrackOutcome(urlString, ref, ua) ==
    IF Len(urlString) = 0 THEN [kind |-> "skipped"]
    ELSE IF ref # <<>> /\ ParseUrl(ref).nil THEN [kind |-> "panic"]
    ELSE [kind |-> "insert",
          url |-> urlString,
          ref |-> IF ref # <<>> THEN Hostname(ParseUrl(ref)) ELSE <<>>,
          ua  |-> IF ua # <<>>
                  THEN Browser(ua)[1] \o <<" ">> \o Browser(ua)[2]
                  ELSE <<>>]

\* The instants (hours since 2019-01-01 00:00 UTC) the clock passes through:
\* Jan 31 22:00 and Jan 31 23:00, a Thursday.
Instants == <<742, 743>>

\* The default value of the time column: the current time of the store.
CurrentTimestamp == Instants[clock]

\* The calls made of trackView: <<url, referrer, user agent>>.
Hits ==
    { << <<"a", "b">>, <<"https:", "//", "h", ":", "8", "/", "p">>, <<<< <<"M">>, <<"1">> >>, << <<"F">>, <<"2">> >>>> >>,
      << <<"A">>,      <<>>,                                       <<>> >>,
      << <<"a", "'">>, <<"g", "/", "p">>,                          <<<< <<"f">>, <<"1">> >>>> >>,
      << <<>>,         <<"https:", "//", "h">>,                    <<>> >>,
      << <<"b">>,      <<":", "h">>,                               <<>> >>,
      << <<"b">>,      <<"https:", "//", "%zz">>,                  <<>> >> }

EmptyRequest == [view |-> 0, from |-> <<>>, to |-> <<>>, url |-> <<>>, ref |-> <<>>, ua |-> <<>>]

NoCall == <<<<>>, <<>>, <<>>>>

\* trackView(urlString, ref, ua); ok is whether the store accepts the insert.
trackView(urlString, ref, ua, ok) ==
    LET t == TrackOutcome(urlString, ref, ua)
    IN /\ (t.kind = "insert" /\ ok) => Len(rows) < MaxRows
       /\ op' = "trackView"
       /\ call' = <<urlString, ref, ua>>
       /\ IF t.kind = "insert"
          THEN IF ok
               THEN /\ rows' = Append(rows, [url |-> t.url, ref |-> t.ref,
                                             useragent |-> t.ua, time |-> CurrentTimestamp])
                    /\ outcome' = "inserted"
               ELSE /\ rows' = rows
                    /\ outcome' = "failed"
          ELSE /\ rows' = rows
               /\ outcome' = t.kind
       /\ req' = EmptyRequest
       /\ filterString' = <<>>
       /\ statement' = <<>>
       /\ namedArgs' = <<>>
       /\ fault' = "none"
       /\ resultRows' = <<>>
       /\ e' = FALSE
       /\ UNCHANGED clock

TrackView == \E h \in Hits, ok \in BOOLEAN : trackView(h[1], h[2], h[3], ok)

\* Time passes in the store.
Tick ==
    /\ clock < Len(Instants)
    /\ clock' = clock + 1
    /\ UNCHANGED <<rows, op, call, outcome, req, filterString, statement, namedArgs, fault,
                   resultRows, e>>

----------------------------------------------------------------------------
(* Requesting: the View constants and the statement builders *)

PAGES == 1
REFERRERS == 2
USERAGENTS == 3
HOURS == 4
DAYS == 5
WEEKS == 6
MONTHS == 7

\* sql.Named(name, value)
Named(name, value) == [Name |-> name, Value |-> value]

\* Each filter builder gets the parameter list collected so far and returns
\* its clause together with the list it leaves behind (the *[]sql.NamedArg).

\* buildDateTimeFilter with the lower bound alone when both bounds are set.
buildDateTimeFilter_FromOnly(request, namedArg) ==
    IF Len(request.from) > 0
    THEN [text |-> <<"datetime(time, 'localtime') >= :from">>,
          namedArg |-> Append(namedArg, Named("from", request.from))]
    ELSE IF Len(request.to) > 0
    THEN [text |-> <<"datetime(time, 'localtime') <= :to">>,
          namedArg |-> Append(namedArg, Named("to", request.to))]
    ELSE [text |-> <<>>, namedArg |-> namedArg]

buildDateTimeFilter(request, namedArg) ==
    IF Len(request.from) > 0 /\ Len(request.to) > 0
    THEN [text |-> <<"datetime(time, 'localtime') between :from and :to">>,
          namedArg |-> Append(Append(namedArg, Named("from", request.from)),
                              Named("to", request.to))]
    ELSE IF Len(request.from) > 0
    THEN [text |-> <<"datetime(time, 'localtime') >= :from">>,
          namedArg |-> Append(namedArg, Named("from", request.from))]
    ELSE IF Len(request.to) > 0
    THEN [text |-> <<"datetime(time, 'localtime') <= :to">>,
          namedArg |-> Append(namedArg, Named("to", request.to))]
    ELSE [text |-> <<>>, namedArg |-> namedArg]

\* buildUrlFilter with the value written into the clause.
buildUrlFilter_Interpolated(request, namedArg) ==
    IF Len(request.url) > 0
    THEN [text |-> <<"url like '%">> \o request.url \o <<"%'">>, namedArg |-> namedArg]
    ELSE [text |-> <<>>, namedArg |-> namedArg]

buildUrlFilter(request, namedArg) ==
    IF Len(request.url) > 0
    THEN [text |-> <<"url like :url">>,
          namedArg |-> Append(namedArg, Named("url", <<"%">> \o request.url \o <<"%">>))]
    ELSE [text |-> <<>>, namedArg |-> namedArg]

buildRefFilter(request, namedArg) ==
    IF Len(request.ref) > 0
    THEN [text |-> <<"ref like :ref">>,
          namedArg |-> Append(namedArg, Named("ref", <<"%">> \o request.ref \o <<"%">>))]
    ELSE [text |-> <<>>, namedArg |-> namedArg]

buildUseragentFilter(request, namedArg) ==
    IF Len(request.ua) > 0
    THEN [text |-> <<"useragent like :ua">>,
          namedArg |-> Append(namedArg, Named("ua", <<"%">> \o request.ua \o <<"%">>))]
    ELSE [text |-> <<>>, namedArg |-> namedArg]

\* buildFilter joining the four clauses without dropping the empty ones.
buildFilter_KeepEmpty(request) ==
    LET d == buildDateTimeFilter(request, <<>>)
        u == buildUrlFilter(request, d.namedArg)
        r == buildRefFilter(request, u.namedArg)
        a == buildUseragentFilter(request, r.namedArg)
    IN [filters |-> Join(<<d.text, u.text, r.text, a.text>>, <<" and ">>),
        parameters |-> a.namedArg]

buildFilter(request) ==
    LET d == buildDateTimeFilter(request, <<>>)
        u == buildUrlFilter(request, d.namedArg)
        r == buildRefFilter(request, u.namedArg)
        a == buildUseragentFilter(request, r.namedArg)
        allFilters == SelectSeq(<<d.text, u.text, r.text, a.text>>,
                                LAMBDA filter : Len(filter) > 0)
    IN [filters |-> Join(allFilters, <<" and ">>), parameters |-> a.namedArg]

\* TimeFormat with the format of MONTHS for WEEKS too.
TimeFormat_WeeksAsMonths(view) ==
    CASE view = HOURS -> <<"%Y-%m-%d %H">>
      [] view = DAYS -> <<"%Y-%m-%d">>
      [] view = WEEKS -> <<"%Y-%m">>
      [] view = MONTHS -> <<"%Y-%m">>
      [] OTHER -> <<>>

\* The strftime format of the four time views.
TimeFormat(view) ==
    CASE view = HOURS -> <<"%Y-%m-%d %H">>
      [] view = DAYS -> <<"%Y-%m-%d">>
      [] view = WEEKS -> <<"%Y-%W">>
      [] view = MONTHS -> <<"%Y-%m">>
      [] OTHER -> <<>>

buildStatement(request, filters0) ==
    LET filters == IF Len(filters0) > 0
                   THEN <<" where ">> \o filters0 \o <<" ">>
                   ELSE <<" ">>
    IN CASE request.view = PAGES ->
              <<"SELECT url as first, count(*) as second from views">>
                  \o filters \o <<"group by url;">>
         [] request.view = REFERRERS ->
              <<"SELECT ref as first, count(*) as second from views">>
                  \o filters \o <<"group by ref;">>
         [] request.view = USERAGENTS ->
              <<"SELECT useragent as first, count(*) as second from views">>
                  \o filters \o <<"group by useragent;">>
         [] request.view \in {HOURS, DAYS, WEEKS, MONTHS} ->
              <<"SELECT strftime('">> \o TimeFormat(request.view)
                  \o <<"', time, 'localtime') as first, count(*) as second from views">>
                  \o filters \o <<"group by first;">>
         [] OTHER -> <<>>

----------------------------------------------------------------------------
(* The storage engine: SQLite's date functions, LIKE, and the aggregate
   select, as far as the statements above use them *)

\* Days of 2019 before the first of each month.
MonthStart == <<0, 31, 59, 90, 120, 151, 181, 212, 243, 273, 304, 334>>

\* The local time of a stored instant, in hours since 2019-01-01 00:00.
LocalHours(time) == time + TzOffsetHours

DayOfYear(time) == LocalHours(time) \div 24

Hour(time) == LocalHours(time) % 24

Month(time) ==
    CHOOSE m \in 1..12 :
        /\ MonthStart[m] <= DayOfYear(time)
        /\ \A n \in (m + 1)..12 : MonthStart[n] > DayOfYear(time)

Day(time) == DayOfYear(time) - MonthStart[Month(time)] + 1

\* %W: week of the year, weeks start on Monday; 2019-01-01 is a Tuesday.
Week(time) ==
    LET wd == (DayOfYear(time) + 1) % 7
    IN (7 + DayOfYear(time) - wd) \div 7

\* datetime(time, 'localtime')
Datetime(time) == <<2019, Month(time), Day(time), Hour(time), 0>>

\* strftime(format, time, 'localtime')
Strftime(format, time) ==
    CASE format = "%Y-%m-%d %H" -> <<2019, Month(time), Day(time), Hour(time)>>
      [] format = "%Y-%m-%d" -> <<2019, Month(time), Day(time)>>
      [] format = "%Y-%W" -> <<2019, Week(time)>>
      [] format = "%Y-%m" -> <<2019, Month(time)>>

\* LIKE folds the case of ASCII letters.
Fold(c) ==
    CASE c = "A" -> "a"
      [] c = "F" -> "f"
      [] OTHER -> c

RECURSIVE Like(_, _)
\* text LIKE pattern: % matches any run of characters, _ any one character,
\* any other character itself up to case; there is no escape character.
Like(pattern, text) ==
    IF Len(pattern) = 0 THEN Len(text) = 0
    ELSE IF pattern[1] = "%"
    THEN \E k \in 0..Len(text) : Like(Tail(pattern), SubSeq(text, k + 1, Len(text)))
    ELSE IF Len(text) = 0 THEN FALSE
    ELSE IF pattern[1] = "_" THEN Like(Tail(pattern), Tail(text))
    ELSE Fold(pattern[1]) = Fold(text[1]) /\ Like(Tail(pattern), Tail(text))

HasArg(args, name) == \E i \in 1..Len(args) : args[i].Name = name

ArgValue(args, name) == args[CHOOSE i \in 1..Len(args) : args[i].Name = name].Value

\* The clauses the engine is asked to evaluate, with the parameters they use.
ClauseArgs(clause) ==
    CASE clause = "datetime(time, 'localtime') between :from and :to" -> {"from", "to"}
      [] clause = "datetime(time, 'localtime') >= :from" -> {"from"}
      [] clause = "datetime(time, 'localtime') <= :to" -> {"to"}
      [] clause = "url like :url" -> {"url"}
      [] clause = "ref like :ref" -> {"ref"}
      [] clause = "useragent like :ua" -> {"ua"}
      [] OTHER -> {"?"}

EvalClause(clause, args, row) ==
    CASE clause = "datetime(time, 'localtime') between :from and :to" ->
             /\ LeqFields(ArgValue(args, "from"), Datetime(row.time))
             /\ LeqFields(Datetime(row.time), ArgValue(args, "to"))
      [] clause = "datetime(time, 'localtime') >= :from" ->
             LeqFields(ArgValue(args, "from"), Datetime(row.time))
      [] clause = "datetime(time, 'localtime') <= :to" ->
             LeqFields(Datetime(row.time), ArgValue(args, "to"))
      [] clause = "url like :url" -> Like(ArgValue(args, "url"), row.url)
      [] clause = "ref like :ref" -> Like(ArgValue(args, "ref"), row.ref)
      [] clause = "useragent like :ua" -> Like(ArgValue(args, "ua"), row.useragent)

SelectHeads ==
    {"SELECT url as first, count(*) as second from views",
     "SELECT ref as first, count(*) as second from views",
     "SELECT useragent as first, count(*) as second from views"}

TimeFormats == {"%Y-%m-%d %H", "%Y-%m-%d", "%Y-%W", "%Y-%m"}

\* The statement split into its select expression, its where clauses and
\* its group-by expression; ok is FALSE for a text that is no such statement.
ParseStatement(st) ==
    LET n == Len(st)
        timed == n >= 5 /\ st[1] = "SELECT strftime('" /\ st[2] \in TimeFormats
                   /\ st[3] = "', time, 'localtime') as first, count(*) as second from views"
        plain == n >= 3 /\ st[1] \in SelectHeads
        from == IF timed THEN 4 ELSE 2
        middle == SubSeq(st, from, n - 1)
        inner == SubSeq(middle, 2, Len(middle) - 1)
        bare == middle = <<" ">>
        where == /\ Len(middle) >= 3
                 /\ middle[1] = " where "
                 /\ middle[Len(middle)] = " "
                 /\ Len(inner) % 2 = 1
                 /\ \A i \in 1..Len(inner) :
                        IF i % 2 = 0 THEN inner[i] = " and "
                        ELSE ClauseArgs(inner[i]) # {"?"}
        select == IF timed THEN st[2]
                  ELSE IF st[1] = "SELECT url as first, count(*) as second from views" THEN "url"
                  ELSE IF st[1] = "SELECT ref as first, count(*) as second from views" THEN "ref"
                  ELSE "useragent"
        group == CASE st[n] = "group by url;" -> "url"
                   [] st[n] = "group by ref;" -> "ref"
                   [] st[n] = "group by useragent;" -> "useragent"
                   [] st[n] = "group by first;" -> select
                   [] OTHER -> "?"
    IN IF (timed \/ plain) /\ (bare \/ where) /\ group # "?"
       THEN [ok |-> TRUE, select |-> select, group |-> group,
             clauses |-> IF bare THEN <<>>
                         ELSE [j \in 1..((Len(inner) + 1) \div 2) |-> inner[2 * j - 1]]]
       ELSE [ok |-> FALSE]

\* The value of a select or group-by expression on a row.
Eval(expr, row) ==
    CASE expr = "url" -> row.url
      [] expr = "ref" -> row.ref
      [] expr = "useragent" -> row.useragent
      [] OTHER -> Strftime(expr, row.time)

\* The order of the groups: the byte order of the group-by values.
LessKey(expr, a, b) ==
    IF expr \in TimeFormats THEN LessFields(a, b) ELSE LessChars(a, b)

RECURSIVE SortKeys(_, _)
SortKeys(expr, keys) ==
    IF keys = {} THEN <<>>
    ELSE LET least == CHOOSE k \in keys : \A o \in keys \ {k} : LessKey(expr, k, o)
         IN <<least>> \o SortKeys(expr, keys \ {least})

\* The result set of the aggregate select over table, with no driver fault:
\* err for a text that does not prepare or that lacks a parameter it names.
\* The empty text prepares to no statement and yields no row (the driver
\* failing on it is the fault "query" of request).
Query(st, args, table) ==
    LET p == ParseStatement(st)
    IN IF st = <<>> THEN [err |-> FALSE, rows |-> <<>>]
       ELSE IF ~p.ok THEN [err |-> TRUE, rows |-> <<>>]
       ELSE IF \E i \in 1..Len(p.clauses) :
                   \E a \in ClauseArgs(p.clauses[i]) : ~HasArg(args, a)
       THEN [err |-> TRUE, rows |-> <<>>]
       ELSE LET hit == {i \in 1..Len(table) :
                           \A j \in 1..Len(p.clauses) : EvalClause(p.clauses[j], args, table[i])}
                keys == SortKeys(p.group, {Eval(p.group, table[i]) : i \in hit})
                members(k) == {i \in hit : Eval(p.group, table[i]) = k}
                first(k) == CHOOSE i \in members(k) : \A o \in members(k) : i <= o
            IN [err |-> FALSE,
                rows |-> [g \in 1..Len(keys) |->
                             [First |-> Eval(p.select, table[first(keys[g])]),
                              Second |-> Cardinality(members(keys[g]))]]]

----------------------------------------------------------------------------
(* Requesting: request *)

RECURSIVE ReadRows(_, _, _, _, _)
\* The loop over the cursor: row i is next; the driver fails the step to
\* row k (f = "iter") or the scan of row k (f = "scan").  A failed step ends
\* the loop like the end of the rows does, and e is that of the last Scan.
ReadRows(cursor, i, f, k, acc) ==
    IF i > Len(cursor) \/ (f = "iter" /\ i = k) THEN [resultRows |-> acc, e |-> FALSE]
    ELSE IF f = "scan" /\ i = k THEN [resultRows |-> acc, e |-> TRUE]
    ELSE ReadRows(cursor, i + 1, f, k, Append(acc, cursor[i]))

\* request(viewsRequest); f and k are what the storage driver does: f = "query"
\* fails db.Query, "scan" and "iter" fail the read of row k.
request(viewsRequest, f, k) ==
    LET built == buildFilter(viewsRequest)
        st == buildStatement(viewsRequest, built.filters)
        cursor == Query(st, built.parameters, rows)
        read == IF f = "query" \/ cursor.err
                THEN [resultRows |-> <<>>, e |-> TRUE]
                ELSE ReadRows(cursor.rows, 1, f, k, <<>>)
    IN /\ f \in {"scan", "iter"} => (~cursor.err /\ k \in 1..Len(cursor.rows))
       /\ f \in {"none", "query"} => k = 0
       /\ op' = "request"
       /\ req' = viewsRequest
       /\ filterString' = built.filters
       /\ statement' = st
       /\ namedArgs' = built.parameters
       /\ fault' = f
       /\ resultRows' = read.resultRows
       /\ e' = read.e
       /\ call' = NoCall
       /\ outcome' = "none"
       /\ UNCHANGED <<rows, clock>>

\* The filter values requests are made with.

\* "2019-02-01" and "2019-02-01 00:00:00".
DateValues == {<<2019, 2, 1>>, <<2019, 2, 1, 0, 0>>}

UrlValues == {<<"a">>, <<"_">>, <<"%">>, <<"'">>}

RefValues == {<<"h">>}

UaValues == {<<"f">>}

\* The requests made of the store: every view with no filter, the time
\* ranges, each text filter alone, and all filters together; view 0 is the
\* zero value of View.
Requests ==
    LET R(views, froms, tos, urls, refs, uas) ==
            [view : views, from : froms, to : tos, url : urls, ref : refs, ua : uas]
        none == {<<>>}
    IN R(0..MONTHS, none, none, none, none, none)
         \cup R({PAGES, DAYS}, DateValues \cup none, DateValues \cup none, none, none, none)
         \cup R({PAGES}, none, none, UrlValues, none, none)
         \cup R({REFERRERS}, none, none, none, RefValues, none)
         \cup R({USERAGENTS}, none, none, none, none, UaValues)
         \cup R({WEEKS}, DateValues, none, {<<"a">>}, RefValues, UaValues)

\* What the storage driver does during a request, with the row it fails at.
Faults == {<<"none", 0>>, <<"query", 0>>} \cup ({"scan", "iter"} \X (1..MaxRows))

\* A request made after a trackView (or first).
Request ==
    /\ op # "request"
    /\ \E r \in Requests, f \in Faults : request(r, f[1], f[2])

\* The request just made, made again with no trackView in between.  (Another
\* request made here reaches the state it reaches before this one: request
\* leaves rows and clock as they are.)
RequestAgain ==
    /\ op = "request"
    /\ \E f \in Faults : request(req, f[1], f[2])

Init ==
    /\ rows = <<>>
    /\ clock = 1
    /\ op = "none"
    /\ call = NoCall
    /\ outcome = "none"
    /\ req = EmptyRequest
    /\ filterString = <<>>
    /\ statement = <<>>
    /\ namedArgs = <<>>
    /\ fault = "none"
    /\ resultRows = <<>>
    /\ e = FALSE

Next == TrackView \/ Tick \/ Request \/ RequestAgain

Spec == Init /\ [][Next]_vars

----------------------------------------------------------------------------
(* The statement builders alone: every combination of filters and views *)

\* The values of View the builders are given: the seven views, the zero
\* value and the value after MONTHS.
BuildViews == 0..(MONTHS + 1)

BuildUrlValues == {<<"a">>, <<"'">>, <<"%">>}

BuildRefValues == {<<"h">>, <<"_">>}

BuildUaValues == {<<"f">>, <<"'">>}

BuildRequests ==
    [view : BuildViews,
     from : DateValues \cup {<<>>},
     to   : DateValues \cup {<<>>},
     url  : BuildUrlValues \cup {<<>>},
     ref  : BuildRefValues \cup {<<>>},
     ua   : BuildUaValues \cup {<<>>}]

InitBuild ==
    /\ rows = <<>>
    /\ clock = 1
    /\ op = "input"
    /\ call = NoCall
    /\ outcome = "none"
    /\ req \in BuildRequests
    /\ filterString = <<>>
    /\ statement = <<>>
    /\ namedArgs = <<>>
    /\ fault = "none"
    /\ resultRows = <<>>
    /\ e = FALSE

\* buildFilter and buildStatement as request calls them, without the query.
Build ==
    /\ op = "input"
    /\ op' = "build"
    /\ filterString' = buildFilter(req).filters
    /\ namedArgs' = buildFilter(req).parameters
    /\ statement' = buildStatement(req, buildFilter(req).filters)
    /\ UNCHANGED <<rows, clock, call, outcome, req, fault, resultRows, e>>

NextBuild == Build

SpecBuild == InitBuild /\ [][NextBuild]_vars
----------------------------------------------------------------------------
(* Vocabulary of the properties *)

Views == PAGES..MONTHS

\* The grouping key of a view on a stored row.
ViewKey(view, row) ==
    CASE view = PAGES -> row.url
      [] view = REFERRERS -> row.ref
      [] view = USERAGENTS -> row.useragent
      [] view = HOURS -> <<2019, Month(row.time), Day(row.time), Hour(row.time)>>
      [] view = DAYS -> <<2019, Month(row.time), Day(row.time)>>
      [] view = WEEKS -> <<2019, Week(row.time)>>
      [] view = MONTHS -> <<2019, Month(row.time)>>

\* from <= t <= to on the local time of the row, an empty bound being none.
InRange(r, row) ==
    /\ r.from = <<>> \/ LeqFields(r.from, Datetime(row.time))
    /\ r.to = <<>> \/ LeqFields(Datetime(row.time), r.to)

\* The text filters as the engine evaluates them.
LikeAll(r, row) ==
    /\ r.url = <<>> \/ Like(<<"%">> \o r.url \o <<"%">>, row.url)
    /\ r.ref = <<>> \/ Like(<<"%">> \o r.ref \o <<"%">>, row.ref)
    /\ r.ua = <<>> \/ Like(<<"%">> \o r.ua \o <<"%">>, row.useragent)

\* text contains value as a substring, character for character up to the
\* case folding of the engine.
Contains(text, value) ==
    \E k \in 1..(Len(text) - Len(value) + 1) :
        \A j \in 1..Len(value) : Fold(text[k + j - 1]) = Fold(value[j])

\* The text filters as literal containment.
ContainsAll(r, row) ==
    /\ r.url = <<>> \/ Contains(row.url, r.url)
    /\ r.ref = <<>> \/ Contains(row.ref, r.ref)
    /\ r.ua = <<>> \/ Contains(row.useragent, r.ua)

\* The stored rows the filters of r select.
Matching(r) == {i \in 1..Len(rows) : InRange(r, rows[i]) /\ LikeAll(r, rows[i])}

RECURSIVE SumSecond(_)
SumSecond(result) ==
    IF Len(result) = 0 THEN 0 ELSE result[1].Second + SumSecond(Tail(result))

\* resultRows is the grouping of the stored rows S by the key of the view:
\* one row per key, no key twice, each with the number of rows of its key.
Grouped(S, view) ==
    /\ \A g \in 1..Len(resultRows) :
          /\ resultRows[g].Second > 0
          /\ resultRows[g].Second
                = Cardinality({i \in S : ViewKey(view, rows[i]) = resultRows[g].First})
    /\ \A i \in S : \E g \in 1..Len(resultRows) :
          resultRows[g].First = ViewKey(view, rows[i])
    /\ \A g, h \in 1..Len(resultRows) :
          g # h => resultRows[g].First # resultRows[h].First

\* The requests that differ from r in the values of its non-empty filters only.
Variants(r) ==
    LET same(v, values) == IF v = <<>> THEN {<<>>} ELSE values
    IN [view : {r.view},
        from : same(r.from, DateValues),
        to   : same(r.to, DateValues),
        url  : same(r.url, BuildUrlValues),
        ref  : same(r.ref, BuildRefValues),
        ua   : same(r.ua, BuildUaValues)]

ArgNames(args) == [i \in 1..Len(args) |-> args[i].Name]

\* The clause of each filter of r and the parameters it names, in the order
\* date/time, url, ref, useragent.
ExpectedClauses(r) ==
    (IF r.from # <<>> /\ r.to # <<>>
     THEN <<"datetime(time, 'localtime') between :from and :to">>
     ELSE IF r.from # <<>> THEN <<"datetime(time, 'localtime') >= :from">>
     ELSE IF r.to # <<>> THEN <<"datetime(time, 'localtime') <= :to">>
     ELSE <<>>)
      \o (IF r.url # <<>> THEN <<"url like :url">> ELSE <<>>)
      \o (IF r.ref # <<>> THEN <<"ref like :ref">> ELSE <<>>)
      \o (IF r.ua # <<>> THEN <<"useragent like :ua">> ELSE <<>>)

ExpectedNames(r) ==
    (IF r.from # <<>> THEN <<"from">> ELSE <<>>)
      \o (IF r.to # <<>> THEN <<"to">> ELSE <<>>)
      \o (IF r.url # <<>> THEN <<"url">> ELSE <<>>)
      \o (IF r.ref # <<>> THEN <<"ref">> ELSE <<>>)
      \o (IF r.ua # <<>> THEN <<"ua">> ELSE <<>>)

Interleaved(clauses, sep) ==
    [i \in 1..(2 * Len(clauses) - 1) |->
        IF i % 2 = 1 THEN clauses[(i + 1) \div 2] ELSE sep]

\* The value bound to a parameter name for request r.
BoundValue(r, name) ==
    CASE name = "from" -> r.from
      [] name = "to" -> r.to
      [] name = "url" -> <<"%">> \o r.url \o <<"%">>
      [] name = "ref" -> <<"%">> \o r.ref \o <<"%">>
      [] name = "ua" -> <<"%">> \o r.ua \o <<"%">>

\* The grouping expression of each of the seven views.
ExpectedGroup(view) ==
    CASE view = PAGES -> "url"
      [] view = REFERRERS -> "ref"
      [] view = USERAGENTS -> "useragent"
      [] view = HOURS -> "%Y-%m-%d %H"
      [] view = DAYS -> "%Y-%m-%d"
      [] view = WEEKS -> "%Y-%W"
      [] view = MONTHS -> "%Y-%m"

----------------------------------------------------------------------------
(* The properties *)

\* C1: the statement text and the filter text do not depend on the filter
\* values: every request with the view of req and the same non-empty filter
\* fields, whatever its values, builds the text req builds, with the same
\* parameter names; the values are in the bound parameters only.
C1_TextIndependentOfValues ==
    op = "build" =>
        /\ \A r2 \in Variants(req) :
              /\ buildFilter(r2).filters = filterString
              /\ buildStatement(r2, buildFilter(r2).filters) = statement
              /\ ArgNames(buildFilter(r2).parameters) = ArgNames(namedArgs)
        /\ \A i \in 1..Len(namedArgs) :
              namedArgs[i].Value = BoundValue(req, namedArgs[i].Name)

C1_Witness ==
    /\ op = "build"
    /\ req.view = PAGES
    /\ req.url = <<"'">>
    /\ req.ref = <<"_">>
    /\ req.from # <<>>
    /\ Len(namedArgs) = 3
    /\ Len(statement) > 0

\* C2: a successful request with no driver fault counts exactly the rows
\* that contain each non-empty url, ref and ua filter value as a literal
\* substring (and lie in the time range).
C2_LiteralContainment ==
    (op = "request" /\ fault = "none" /\ ~e /\ req.view \in Views) =>
        SumSecond(resultRows)
            = Cardinality({i \in 1..Len(rows) :
                              InRange(req, rows[i]) /\ ContainsAll(req, rows[i])})

\* C3: a trackView call appends exactly one row, after the rows there were,
\* when its url is non-empty and its insert succeeds, and otherwise leaves
\* the rows as they were; no other step changes the rows.
C3_RowsAppendOnly ==
    [][IF op' = "trackView" /\ clock' = clock
       THEN IF outcome' = "inserted"
            THEN /\ Len(call'[1]) > 0
                 /\ Len(rows') = Len(rows) + 1
                 /\ SubSeq(rows', 1, Len(rows)) = rows
                 /\ rows'[Len(rows')].url = call'[1]
            ELSE /\ rows' = rows
                 /\ Len(call'[1]) = 0 => outcome' = "skipped"
       ELSE rows' = rows]_vars

C3_Witness ==
    /\ op = "trackView"
    /\ outcome = "inserted"
    /\ Len(rows) = 2
    /\ rows[1].url # rows[2].url

\* C4: a trackView call with a non-empty url and a referrer the URL parser
\* rejects completes: it reaches the insert, and the row it stores has an
\* empty referrer hostname.
C4_MalformedReferrerCompletes ==
    (op = "trackView" /\ Len(call[1]) > 0 /\ call[2] # <<>> /\ ParseUrl(call[2]).nil) =>
        /\ outcome \in {"inserted", "failed"}
        /\ outcome = "inserted" => rows[Len(rows)].ref = <<>>

\* C5: a request during which the scan of a row or the iteration fails
\* returns an error and no rows.
C5_NoPartialResult ==
    (op = "request" /\ fault \in {"scan", "iter"}) => (e /\ resultRows = <<>>)

\* C6: the rows a request with no driver fault counts are exactly the rows
\* whose local time t has from <= t <= to (an empty bound is no bound) and
\* that pass the text filters, grouped by the key of the view.
C6_DateRange ==
    (op = "request" /\ fault = "none" /\ ~e /\ req.view \in Views) =>
        Grouped(Matching(req), req.view)

C6_Witness ==
    /\ op = "request"
    /\ fault = "none"
    /\ ~e
    /\ req.view = DAYS
    /\ req.from = <<2019, 2, 1>>
    /\ req.to = <<2019, 2, 1, 0, 0>>
    /\ Len(rows) = 2
    /\ Datetime(rows[1].time) = <<2019, 1, 31, 23, 0>>
    /\ Datetime(rows[2].time) = <<2019, 2, 1, 0, 0>>
    /\ resultRows = <<[First |-> <<2019, 2, 1>>, Second |-> 1]>>

\* C7: a request that returns no error returns one row per distinct key of
\* the view among the rows matching the filters, with the number of matching
\* rows of that key, no key twice, the counts summing to the matching rows.
C7_OneRowPerKey ==
    (op = "request" /\ ~e /\ req.view \in Views) =>
        /\ Grouped(Matching(req), req.view)
        /\ SumSecond(resultRows) = Cardinality(Matching(req))

\* C8: no request changes the stored rows, and a request repeated with no
\* trackView in between, both returning no error, returns the same rows.
C8_Idempotent ==
    [][op' = "request" =>
          /\ rows' = rows
          /\ (op = "request" /\ req' = req /\ ~e /\ ~e') => resultRows' = resultRows]_vars

\* C9: the filter text is one clause per non-empty filter, in the order
\* date/time, url, ref, useragent, joined by " and "; the parameters are
\* those the clauses name, in that order, each once; the statement of a
\* view has a where clause, holding the filter text, iff a filter is set.
C9_ClausesAndParameters ==
    op = "build" =>
        /\ filterString = Interleaved(ExpectedClauses(req), " and ")
        /\ ArgNames(namedArgs) = ExpectedNames(req)
        /\ req.view \in Views =>
              /\ IndexOf(statement, " where ") # 0 <=> ExpectedClauses(req) # <<>>
              /\ ParseStatement(statement).ok
              /\ ParseStatement(statement).clauses = ExpectedClauses(req)

C9_Witness ==
    /\ op = "build"
    /\ req.view = HOURS
    /\ req.from # <<>>
    /\ req.to # <<>>
    /\ req.url = <<>>
    /\ req.ref # <<>>
    /\ req.ua # <<>>
    /\ Len(filterString) = 5
    /\ Len(namedArgs) = 4

\* C10: the statement is non-empty for each of the seven views, with the
\* select and grouping expression of that view, and empty for every other
\* view value, whatever the filters.
C10_StatementPerView ==
    op = "build" =>
        IF req.view \in Views
        THEN /\ statement # <<>>
             /\ ParseStatement(statement).ok
             /\ ParseStatement(statement).select = ExpectedGroup(req.view)
             /\ ParseStatement(statement).group = ExpectedGroup(req.view)
        ELSE statement = <<>>

C10_Witness ==
    /\ op = "build"
    /\ req.view = MONTHS + 1
    /\ req.url # <<>>
    /\ req.from # <<>>
    /\ Len(namedArgs) > 0
    /\ statement = <<>>
====
